---- MODULE Spec2Model ----
(***************************************************************************)
(* Corporate RM AI Assistant: the FastAPI service of api/main.py.          *)
(*                                                                         *)
(* Texts that the code inspects (regular-expression search, strip, lower,  *)
(* substring tests) are sequences of one-character strings.  Texts the     *)
(* code only passes along are TLA+ strings.  A float score is an integer   *)
(* number of hundredths.  Optional[str] is a record [some, val].           *)
(***************************************************************************)
EXTENDS Integers, Sequences, FiniteSets, TLC

VARIABLES
    oa_client,   \* module-level OpenAI handle: "None" or "Client"
    today,       \* the value date.today() returns (a day number)
    endpoint,    \* the operation the last request went to
    request,     \* the validated payload of the last request
    reply,       \* what the text-generation service does when this request calls it
    steps,       \* what the handler did, in order: guard scans, adapter calls
    response     \* the HTTP response of the last request

vars == <<oa_client, today, endpoint, request, reply, steps, response>>

\* The last day the clock of the model reaches.
MaxDay == 2

\* The longest filler run placed around a token of a scanned text.
MaxPad == 1

----------------------------------------------------------------------------
(* Characters and Python's str helpers *)

Upper == {"A","B","C","D","E","F","G","H","I","J","K","L","M",
          "N","O","P","Q","R","S","T","U","V","W","X","Y","Z"}
Lower == {"a","b","c","d","e","f","g","h","i","j","k","l","m",
          "n","o","p","q","r","s","t","u","v","w","x","y","z"}
Digit == {"0","1","2","3","4","5","6","7","8","9"}
Letter == Upper \cup Lower
\* \w of Python's re for the ASCII texts of the model
WordChar == Letter \cup Digit \cup {"_"}
Whitespace == {" ", "\n", "\t"}

UpperSeq == <<"A","B","C","D","E","F","G","H","I","J","K","L","M",
              "N","O","P","Q","R","S","T","U","V","W","X","Y","Z">>
LowerSeq == <<"a","b","c","d","e","f","g","h","i","j","k","l","m",
              "n","o","p","q","r","s","t","u","v","w","x","y","z">>

\* str.lower() on one uppercase character
LowerOf == [c \in Upper |-> LowerSeq[CHOOSE i \in 1..26 : UpperSeq[i] = c]]

\* str.lower()
PyLower(t) == [i \in 1..Len(t) |-> IF t[i] \in Upper THEN LowerOf[t[i]] ELSE t[i]]

\* str.strip(): whitespace removed at both ends
PyStrip(t) ==
    LET keep == {i \in 1..Len(t) : t[i] \notin Whitespace}
    IN  IF keep = {} THEN <<>>
        ELSE LET lo == CHOOSE i \in keep : \A j \in keep : i <= j
                 hi == CHOOSE i \in keep : \A j \in keep : j <= i
             IN  SubSeq(t, lo, hi)

\* `needle in haystack` on str
PyIn(needle, haystack) ==
    \E a \in 1..(Len(haystack) - Len(needle) + 1) :
        \A i \in 1..Len(needle) : haystack[a + i - 1] = needle[i]

\* lst[:n]
PyTake(lst, n) == SubSeq(lst, 1, IF Len(lst) < n THEN Len(lst) ELSE n)

\* Optional[str]
NoneStr == [some |-> FALSE, val |-> <<>>]
Some(t) == [some |-> TRUE, val |-> t]
\* `x or ""`
OrEmpty(x) == IF x.some THEN x.val ELSE <<>>

----------------------------------------------------------------------------
(* Input guardrails *)

AllIn(t, a, b, S) == \A i \in a..b : t[i] \in S
IsWordAt(t, i) == i \in 1..Len(t) /\ t[i] \in WordChar
\* \b between t[p-1] and t[p]
IsBoundary(t, p) == IsWordAt(t, p - 1) # IsWordAt(t, p)

\* re.compile(r"\b[A-Z]{2}\d{2}[A-Z0-9]{11,30}\b").search(t)
IbanSearch(t) ==
    \E a \in {i \in 1..Len(t) : IsBoundary(t, i) /\ t[i] \in Upper} :
        /\ a + 3 <= Len(t)
        /\ AllIn(t, a, a + 1, Upper)
        /\ AllIn(t, a + 2, a + 3, Digit)
        /\ \E n \in 11..30 :
              /\ a + 3 + n <= Len(t)
              /\ AllIn(t, a + 4, a + 3 + n, Upper \cup Digit)
              /\ IsBoundary(t, a + 4 + n)

\* the search for a long digit string without its two \b
DigitsSearchNoBoundary(t) ==
    \E a \in {i \in 1..Len(t) : t[i] \in Digit} :
        \E n \in 12..19 :
            /\ a + n - 1 <= Len(t)
            /\ AllIn(t, a, a + n - 1, Digit)

\* re.compile(r"\b\d{12,19}\b").search(t)
DigitsSearch(t) ==
    \E a \in {i \in 1..Len(t) : IsBoundary(t, i) /\ t[i] \in Digit} :
        \E n \in 12..19 :
            /\ a + n - 1 <= Len(t)
            /\ AllIn(t, a, a + n - 1, Digit)
            /\ IsBoundary(t, a + n)

EmailLocalChar == Letter \cup Digit \cup {".", "_", "%", "+", "-"}
EmailDomainChar == Letter \cup Digit \cup {".", "-"}

\* re.compile(r"\b[A-Za-z0-9._%+-]+@[A-Za-z0-9.-]+\.[A-Za-z]{2,}\b").search(t)
EmailSearch(t) ==
    \E at \in {i \in 1..Len(t) : t[i] = "@"} :
        /\ \E a \in 1..(at - 1) :
              /\ IsBoundary(t, a)
              /\ AllIn(t, a, at - 1, EmailLocalChar)
        /\ \E d \in {i \in (at + 2)..Len(t) : t[i] = "."} :
              /\ AllIn(t, at + 1, d - 1, EmailDomainChar)
              /\ \E e \in (d + 2)..Len(t) :
                    /\ AllIn(t, d + 1, e, Letter)
                    /\ IsBoundary(t, e + 1)

_contains_sensitive(text) ==
    IF text = <<>> THEN FALSE
    ELSE LET t == PyStrip(text)
         IN  IF t = <<>> THEN FALSE
             ELSE IbanSearch(t) \/ DigitsSearch(t) \/ EmailSearch(t)

\* TRUE when _guard_no_sensitive(*texts) raises HTTPException(400)
_guard_no_sensitive(texts) ==
    \E i \in 1..Len(texts) : _contains_sensitive(texts[i])

SensitiveDetail ==
    "Sensitive identifiers detected. Remove PII/account numbers/IBAN/emails and retry with anonymised inputs."

HTTP400 == [status_code |-> 400, body |-> [kind |-> "HTTPException", detail |-> SensitiveDetail]]
\* an exception no handler catches: FastAPI answers 500
HTTP500(exc) == [status_code |-> 500, body |-> [kind |-> exc, detail |-> "Internal Server Error"]]
HTTP200(body) == [status_code |-> 200, body |-> body]

\* a step of a handler: a call of _guard_no_sensitive on these texts
GuardStep(texts) == [op |-> "guard", texts |-> texts]

----------------------------------------------------------------------------
(* Deterministic assessment: the texts of _assess_deal *)

MsgNoRatingGrade == <<"N","o"," ","r","a","t","i","n","g"," ","g","r","a","d","e"," ","p","r","o","v","i","d","e","d",";"," ","c","a","n","n","o","t"," ","a","n","c","h","o","r"," ","r","i","s","k"," ","p","o","s","i","t","i","o","n","i","n","g",".">>

MsgNotDifferentiated == <<"E","l","i","g","i","b","i","l","i","t","y"," ","i","s"," ","n","o","t"," ","s","t","r","o","n","g","l","y"," ","d","i","f","f","e","r","e","n","t","i","a","t","e","d"," ","v","s","."," ","s","t","r","a","t","e","g","i","c"," ","m","a","n","d","a","t","e",".">>

MsgWeakEligibilityHead == <<"W","e","a","k"," ","s","t","r","a","t","e","g","i","c"," ","e","l","i","g","i","b","i","l","i","t","y"," ","s","c","o","r","e"," ","(">>

MsgScoreTail == <<"/","6",")",".">>

MsgRevenueDeclining == <<"R","e","v","e","n","u","e"," ","t","r","e","n","d"," ","d","e","c","l","i","n","i","n","g"," ","o","v","e","r"," ","3"," ","y","e","a","r","s",".">>

MsgMarginPressure == <<"M","a","r","g","i","n","s"," ","u","n","d","e","r"," ","p","r","e","s","s","u","r","e",";"," ","r","i","s","k"," ","t","o"," ","d","e","b","t"," ","s","e","r","v","i","c","e"," ","c","a","p","a","c","i","t","y",".">>

MsgLeverageElevated == <<"E","l","e","v","a","t","e","d"," ","l","e","v","e","r","a","g","e"," ","p","o","s","i","t","i","o","n",";"," ","r","e","d","u","c","e","d"," ","h","e","a","d","r","o","o","m",".">>

MsgCashflowWeak == <<"W","e","a","k"," ","c","a","s","h"," ","f","l","o","w"," ","q","u","a","l","i","t","y",";"," ","p","o","t","e","n","t","i","a","l"," ","w","o","r","k","i","n","g","-","c","a","p","i","t","a","l"," ","s","t","r","e","s","s",".">>

MsgVolatilityHigh == <<"H","i","g","h"," ","e","a","r","n","i","n","g","s"," ","v","o","l","a","t","i","l","i","t","y",";"," ","n","e","e","d","s"," ","s","t","r","o","n","g","e","r"," ","c","o","n","t","r","o","l","s","/","m","o","n","i","t","o","r","i","n","g",".">>

MsgCapexHigh == <<"H","i","g","h"," ","c","a","p","e","x","/","g","r","o","w","t","h"," ","i","n","v","e","s","t","m","e","n","t"," ","i","n","c","r","e","a","s","e","s"," ","e","x","e","c","u","t","i","o","n"," ","r","i","s","k",".">>

MsgTransparencyWeak == <<"W","e","a","k"," ","f","i","n","a","n","c","i","a","l"," ","t","r","a","n","s","p","a","r","e","n","c","y"," ","l","i","m","i","t","s"," ","c","r","e","d","i","t"," ","c","o","m","f","o","r","t",".">>

KwDeclining == <<"d","e","c","l","i","n","i","n","g">>

KwUnderPressure == <<"u","n","d","e","r"," ","p","r","e","s","s","u","r","e">>

KwElevated == <<"e","l","e","v","a","t","e","d">>

KwWeak == <<"w","e","a","k">>

KwHigh == <<"h","i","g","h">>

MajorKeywords == <<KwDeclining, KwUnderPressure, KwElevated, KwWeak, KwHigh>>

DigitSeq == <<"0","1","2","3","4","5","6","7","8","9">>

\* f"{s:.1f}" for a score of h hundredths (0 <= h <= 600).  The scores of the
\* model have no 5 in the hundredths place, so no tie is rounded.
Fmt1(h) ==
    LET tenths == (h + 5) \div 10
    IN  <<DigitSeq[(tenths \div 10) + 1], ".", DigitSeq[(tenths % 10) + 1]>>

\* a strength: its literal text and the value interpolated into it
Strength(text, arg) == [text |-> text, arg |-> arg]

EmptyLists == [strengths |-> <<>>, constraints |-> <<>>, rm_actions |-> <<>>]
AddStrength(acc, s) == [acc EXCEPT !.strengths = Append(@, s)]
AddConstraint(acc, c, action) ==
    [acc EXCEPT !.constraints = Append(@, c), !.rm_actions = Append(@, action)]

RatingRule(acc, payload) ==
    IF PyStrip(payload.rating_anchor.grade) # <<>>
    THEN AddStrength(acc, Strength("Rating anchor available from {system}.",
                                   payload.rating_anchor.system))
    ELSE AddConstraint(acc, MsgNoRatingGrade,
                       "Obtain/confirm latest internal/external rating grade and date.")

\* the eligibility rule with the test of the middle band inverted
EligibilityRuleInverted(acc, payload) ==
    LET s == payload.eligibility.score
    IN  IF s >= 450
        THEN AddStrength(acc, Strength("Strong strategic eligibility score ({s:.1f}/6).", Fmt1(s)))
        ELSE IF s < 300
        THEN AddConstraint(
                 AddStrength(acc, Strength("Moderate strategic eligibility score ({s:.1f}/6).", Fmt1(s))),
                 MsgNotDifferentiated,
                 "Strengthen eligibility case (job creation, exports, ICV, localisation, etc.).")
        ELSE AddConstraint(acc, MsgWeakEligibilityHead \o Fmt1(s) \o MsgScoreTail,
                           "Rework mandate alignment narrative and quantify eligibility drivers.")

\* the eligibility rule with the two band tests strict, so that 4.5 and 3.0
\* fall into the lower band
EligibilityRuleStrict(acc, payload) ==
    LET s == payload.eligibility.score
    IN  IF s > 450
        THEN AddStrength(acc, Strength("Strong strategic eligibility score ({s:.1f}/6).", Fmt1(s)))
        ELSE IF s > 300
        THEN AddConstraint(
                 AddStrength(acc, Strength("Moderate strategic eligibility score ({s:.1f}/6).", Fmt1(s))),
                 MsgNotDifferentiated,
                 "Strengthen eligibility case (job creation, exports, ICV, localisation, etc.).")
        ELSE AddConstraint(acc, MsgWeakEligibilityHead \o Fmt1(s) \o MsgScoreTail,
                           "Rework mandate alignment narrative and quantify eligibility drivers.")

EligibilityRule(acc, payload) ==
    LET s == payload.eligibility.score
    IN  IF s >= 450
        THEN AddStrength(acc, Strength("Strong strategic eligibility score ({s:.1f}/6).", Fmt1(s)))
        ELSE IF s >= 300
        THEN AddConstraint(
                 AddStrength(acc, Strength("Moderate strategic eligibility score ({s:.1f}/6).", Fmt1(s))),
                 MsgNotDifferentiated,
                 "Strengthen eligibility case (job creation, exports, ICV, localisation, etc.).")
        ELSE AddConstraint(acc, MsgWeakEligibilityHead \o Fmt1(s) \o MsgScoreTail,
                           "Rework mandate alignment narrative and quantify eligibility drivers.")

DriversRule(acc, payload) ==
    IF payload.eligibility.drivers # <<>>
    THEN AddStrength(acc, Strength("Eligibility drivers provided.", ""))
    ELSE acc

RevenueRule(acc, fs) ==
    IF fs.revenue_trend_3y = "Improving"
    THEN AddStrength(acc, Strength("Revenue trend improving over 3 years.", ""))
    ELSE IF fs.revenue_trend_3y = "Declining"
    THEN AddConstraint(acc, MsgRevenueDeclining,
                       "Validate orderbook, customer concentration, and recovery plan.")
    ELSE acc

MarginRule(acc, fs) ==
    IF fs.margin_trend_3y = "Improving"
    THEN AddStrength(acc, Strength("Margins improving over 3 years.", ""))
    ELSE IF fs.margin_trend_3y = "Under Pressure"
    THEN AddConstraint(acc, MsgMarginPressure,
                       "Assess pricing power, input cost pass-through, and covenant buffers.")
    ELSE acc

LeverageRule(acc, fs) ==
    IF fs.leverage_position = "Low"
    THEN AddStrength(acc, Strength("Low leverage position.", ""))
    ELSE IF fs.leverage_position = "Elevated"
    THEN AddConstraint(acc, MsgLeverageElevated,
                       "Consider structure support: amortisation, covenants, collateral, DSRA/DSCR.")
    ELSE acc

CashflowRule(acc, fs) ==
    IF fs.cashflow_quality = "Strong"
    THEN AddStrength(acc, Strength("Strong cash flow quality.", ""))
    ELSE IF fs.cashflow_quality = "Weak"
    THEN AddConstraint(acc, MsgCashflowWeak,
                       "Request WC cycle analysis, ageing, and evidence of collections discipline.")
    ELSE acc

VolatilityRule(acc, fs) ==
    IF fs.earnings_volatility = "High"
    THEN AddConstraint(acc, MsgVolatilityHigh,
                       "Add monitoring triggers and tighten covenants; test downside scenarios.")
    ELSE acc

CapexRule(acc, fs) ==
    IF fs.capex_growth_investment = "High"
    THEN AddConstraint(acc, MsgCapexHigh,
                       "Validate capex plan, milestones, contingencies, and sponsor support.")
    ELSE acc

TransparencyRule(acc, fs) ==
    IF fs.financial_transparency = "Weak"
    THEN AddConstraint(acc, MsgTransparencyWeak,
                       "Obtain audited financials, detailed management accounts, and bank statements.")
    ELSE acc

\* any(k in c.lower() for k in [...])
IsMajor(c) ==
    \E i \in 1..Len(MajorKeywords) : PyIn(MajorKeywords[i], PyLower(c))

major_count(constraints) ==
    Cardinality({i \in 1..Len(constraints) : IsMajor(constraints[i])})

\* the readiness rule with Weak from two major constraints on
StatusOfThresholdTwo(n) ==
    IF n >= 2 THEN "Weak" ELSE IF n >= 1 THEN "Conditional" ELSE "Strong"

StatusOf(n) ==
    IF n >= 3 THEN "Weak" ELSE IF n >= 1 THEN "Conditional" ELSE "Strong"

\* the talking points with the bullets of Conditional and Weak exchanged
TalkingPointsSwapped(status) ==
    IF status = "Strong"
    THEN <<"Mandate fit is clear; focus discussion on facility sizing and structure.">>
    ELSE IF status = "Conditional"
    THEN <<"Defer credit appetite until constraints are addressed and visibility improves.">>
    ELSE <<"Proceed subject to resolving key constraints and tightening structure.">>

TalkingPoints(status) ==
    IF status = "Strong"
    THEN <<"Mandate fit is clear; focus discussion on facility sizing and structure.">>
    ELSE IF status = "Conditional"
    THEN <<"Proceed subject to resolving key constraints and tightening structure.">>
    ELSE <<"Defer credit appetite until constraints are addressed and visibility improves.">>

\* the f-string of mandate_fit_summary: its template and the values interpolated
MandateFitSummary(payload, status) ==
    [template |-> "{client_name} sits in the '{sector}' sector with eligibility score {score:.1f}/6. Deal readiness is assessed as {status} based on rating anchor, eligibility strength, and RM-level financial signals (revenue/margin/leverage/cash flow/volatility/transparency).",
     client_name |-> payload.client_name,
     sector |-> payload.sector,
     score |-> Fmt1(payload.eligibility.score),
     status |-> status]

\* the three lists after every rule has run, in the order of the code
AssessLists(payload) ==
    LET fs == payload.financial_signals
        a1 == RatingRule(EmptyLists, payload)
        a2 == EligibilityRule(a1, payload)
        a3 == DriversRule(a2, payload)
        a4 == RevenueRule(a3, fs)
        a5 == MarginRule(a4, fs)
        a6 == LeverageRule(a5, fs)
        a7 == CashflowRule(a6, fs)
        a8 == VolatilityRule(a7, fs)
        a9 == CapexRule(a8, fs)
    IN  TransparencyRule(a9, fs)

_assess_deal(payload, day) ==
    IF _guard_no_sensitive(<<payload.client_name, OrEmpty(payload.group_name),
                             OrEmpty(payload.notes)>>)
    THEN HTTP400
    ELSE LET lists == AssessLists(payload)
             status == StatusOf(major_count(lists.constraints))
         IN  HTTP200([kind |-> "DealSummaryResponse",
                      client_name |-> payload.client_name,
                      group_name |-> payload.group_name,
                      sector |-> payload.sector,
                      rating_anchor |-> payload.rating_anchor,
                      eligibility |-> payload.eligibility,
                      financial_signals |-> payload.financial_signals,
                      deal_readiness |-> [status |-> status,
                                          strengths |-> lists.strengths,
                                          constraints |-> lists.constraints],
                      mandate_fit_summary |-> MandateFitSummary(payload, status),
                      rm_actions |-> lists.rm_actions,
                      talking_points |-> TalkingPoints(status),
                      created_at |-> day,
                      notes |-> payload.notes])

----------------------------------------------------------------------------
(* Values of the request field deal_summary.  The request schemas declare it
   `dict` (AIExplainRequest) and `dict | None` (AIQARequest): what reaches the
   handlers is a plain dict or None, never a DealSummaryResponse object. *)

NoSummaryFields ==
    [notes |-> NoneStr,
     deal_readiness |-> [status |-> "Conditional", strengths |-> <<>>, constraints |-> <<>>],
     mandate_fit_summary |-> "",
     rm_actions |-> <<>>,
     talking_points |-> <<>>]

\* a Python value: its type, the keys (of a dict) or fields (of a model) it has,
\* and what they hold
PyValue(type, keys, fields) == [type |-> type, keys |-> keys, fields |-> fields]
PyNone == PyValue("NoneType", {}, NoSummaryFields)
PyDict(keys, fields) == PyValue("dict", keys, fields)

\* bool(v)
Truthy(v) == v.type # "NoneType" /\ (v.type = "dict" => v.keys # {})
\* bool(s) for an Optional[str]
TruthyStr(s) == s.some /\ s.val # <<>>

\* v.notes, v.model_dump(): a dict has neither attribute
HasAttr(v, name) == v.type = "DealSummaryResponse"

Raised(exc) == [raised |-> TRUE, exc |-> exc, value |-> [kind |-> "none"]]
Returned(v) == [raised |-> FALSE, exc |-> "", value |-> v]

----------------------------------------------------------------------------
(* AI helpers *)

_ai_disclaimer ==
    "Do not enter confidential/internal customer data into external AI. Use anonymised inputs only. Outputs are decision-support and must be reviewed by a qualified banker."

Answer(kind, text, constraints, actions, content) ==
    [kind |-> kind, text |-> text, constraints |-> constraints, actions |-> actions,
     content |-> content]
FixedAnswer(text) == Answer("fixed", text, <<>>, <<>>, <<>>)

AssessFirst ==
    FixedAnswer("Provide a deal assessment first (POST /assess), then ask a question grounded in the summary.")

_deal_to_brief(deal) ==
    IF ~HasAttr(deal, "model_dump")
    THEN Raised("AttributeError")
    ELSE Returned([kind |-> "brief",
                   status |-> deal.fields.deal_readiness.status,
                   strengths |-> PyTake(deal.fields.deal_readiness.strengths, 6),
                   constraints |-> PyTake(deal.fields.deal_readiness.constraints, 6),
                   rm_actions |-> PyTake(deal.fields.rm_actions, 8),
                   notes |-> OrEmpty(deal.fields.notes)])

_fallback_ai_qa(question, deal) ==
    IF ~Truthy(deal)
    THEN Returned(AssessFirst)
    ELSE IF ~HasAttr(deal, "model_dump")
    THEN Raised("AttributeError")
    ELSE LET status == deal.fields.deal_readiness.status
             constraints == deal.fields.deal_readiness.constraints
             actions == deal.fields.rm_actions
         IN  IF status = "Strong"
             THEN Returned(FixedAnswer("Proceed to structure discussion: facility sizing, tenor, security, covenants, and pricing calibration."))
             ELSE IF constraints # <<>>
             THEN Returned(Answer("prioritise",
                      "Prioritise the top constraints first:\n- {constraints}\n\nNext RM actions:\n- {actions}",
                      PyTake(constraints, 5),
                      IF PyTake(actions, 6) # <<>> THEN PyTake(actions, 6)
                      ELSE <<"Request missing information and tighten structure accordingly.">>,
                      <<>>))
             ELSE Returned(FixedAnswer("Focus on clarifying rating anchor, eligibility drivers, and the weakest financial signals."))

AIQAResponse(answer) ==
    [kind |-> "AIQAResponse", answer |-> answer, disclaimer |-> _ai_disclaimer]

AIExplainResponse(executive_summary, key_risks_explained, rm_talking_points) ==
    [kind |-> "AIExplainResponse",
     executive_summary |-> executive_summary,
     key_risks_explained |-> key_risks_explained,
     rm_talking_points |-> rm_talking_points,
     disclaimer |-> _ai_disclaimer]

\* what a handler did: the response it ends with and its steps in order
Outcome(resp, did) == [response |-> resp, steps |-> did]
AdapterStep(prompt) == [op |-> "adapter", texts |-> prompt]

\* the deterministic explain of ai_explain
ExplainFallback(ds) ==
    IF ~HasAttr(ds, "model_dump")
    THEN Raised("AttributeError")
    ELSE Returned(AIExplainResponse(ds.fields.mandate_fit_summary,
                                    PyTake(ds.fields.deal_readiness.constraints, 6),
                                    PyTake(ds.fields.talking_points, 6)))

ExplainFallbackOutcome(ds, did) ==
    LET fb == ExplainFallback(ds)
    IN  IF fb.raised THEN Outcome(HTTP500(fb.exc), did)
        ELSE Outcome(HTTP200(fb.value), did)

\* json.loads(content) and the construction of AIExplainResponse from it
\* succeed: the reply is a JSON object whose two lists, where present, are lists
\* of strings
ExplainJsonOk(r) ==
    /\ TruthyStr(r.content)
    /\ r.json.shape = "object"
    /\ r.json.key_risks_explained.ok
    /\ r.json.rm_talking_points.ok

\* ai_explain once the guard has passed and oa_client is set
ExplainWithAdapter(ds, r, did) ==
    LET brief == _deal_to_brief(ds)
    IN  IF brief.raised THEN Outcome(HTTP500(brief.exc), did)
        ELSE LET called == did \o <<AdapterStep(<<brief.value.notes>>)>>
             IN  IF r.kind = "exception"
                 THEN ExplainFallbackOutcome(ds, called)
                 ELSE IF ExplainJsonOk(r)
                 THEN Outcome(HTTP200(AIExplainResponse(
                                  r.json.executive_summary,
                                  PyTake(r.json.key_risks_explained.items, 10),
                                  PyTake(r.json.rm_talking_points.items, 10))),
                              called)
                 ELSE ExplainFallbackOutcome(ds, called)

\* POST /ai/explain
ai_explain(payload, client, r) ==
    LET ds == payload.deal_summary
    IN  IF ~HasAttr(ds, "notes")
        THEN Outcome(HTTP500("AttributeError"), <<>>)
        ELSE LET notes == ds.fields.notes
                 did == IF TruthyStr(notes) THEN <<GuardStep(<<notes.val>>)>> ELSE <<>>
             IN  IF TruthyStr(notes) /\ _guard_no_sensitive(<<notes.val>>)
                 THEN Outcome(HTTP400, did)
                 ELSE IF client = "None"
                 THEN ExplainFallbackOutcome(ds, did)
                 ELSE ExplainWithAdapter(ds, r, did)

QaFallbackOutcome(question, deal, did) ==
    LET fb == _fallback_ai_qa(question, deal)
    IN  IF fb.raised THEN Outcome(HTTP500(fb.exc), did)
        ELSE Outcome(HTTP200(AIQAResponse(fb.value)), did)

\* the free text in the prompt of ai_qa: the question and, with a summary, the
\* notes line of _deal_to_brief
QaPromptTexts(question, deal) ==
    IF Truthy(deal) THEN <<question, _deal_to_brief(deal).value.notes>> ELSE <<question>>

\* the try block of ai_qa with the exception escaping it
QaAdapterCallUncaught(question, deal, r, did) ==
    LET called == did \o <<AdapterStep(QaPromptTexts(question, deal))>>
    IN  IF r.kind = "exception"
        THEN Outcome(HTTP500("APIError"), called)
        ELSE LET answer == PyStrip(OrEmpty(r.content))
             IN  IF answer = <<>>
                 THEN QaFallbackOutcome(question, deal, called)
                 ELSE Outcome(HTTP200(AIQAResponse(
                          Answer("adapter", "", <<>>, <<>>, answer))), called)

\* the try block of ai_qa: the single adapter call and what is made of it
QaAdapterCall(question, deal, r, did) ==
    LET called == did \o <<AdapterStep(QaPromptTexts(question, deal))>>
    IN  IF r.kind = "exception"
        THEN QaFallbackOutcome(question, deal, called)
        ELSE LET answer == PyStrip(OrEmpty(r.content))
             IN  IF answer = <<>>
                 THEN QaFallbackOutcome(question, deal, called)
                 ELSE Outcome(HTTP200(AIQAResponse(
                          Answer("adapter", "", <<>>, <<>>, answer))), called)

\* ai_qa once the question has passed the guard and oa_client is set
QaWithAdapter(question, deal, r, did) ==
    IF ~Truthy(deal)
    THEN QaAdapterCall(question, deal, r, did)
    ELSE IF ~HasAttr(deal, "notes")
    THEN Outcome(HTTP500("AttributeError"), did)
    ELSE LET notes == deal.fields.notes
             scanned == IF TruthyStr(notes) THEN did \o <<GuardStep(<<notes.val>>)>> ELSE did
         IN  IF TruthyStr(notes) /\ _guard_no_sensitive(<<notes.val>>)
             THEN Outcome(HTTP400, scanned)
             ELSE IF _deal_to_brief(deal).raised
             THEN Outcome(HTTP500(_deal_to_brief(deal).exc), scanned)
             ELSE QaAdapterCall(question, deal, r, scanned)

\* ai_qa with the guard of the question left out
ai_qa_unguarded(payload, client, r) ==
    IF client = "None"
    THEN QaFallbackOutcome(payload.question, payload.deal_summary, <<>>)
    ELSE QaWithAdapter(payload.question, payload.deal_summary, r, <<>>)

\* POST /ai/qa
ai_qa(payload, client, r) ==
    LET did == <<GuardStep(<<payload.question>>)>>
    IN  IF _guard_no_sensitive(<<payload.question>>)
        THEN Outcome(HTTP400, did)
        ELSE IF client = "None"
        THEN QaFallbackOutcome(payload.question, payload.deal_summary, did)
        ELSE QaWithAdapter(payload.question, payload.deal_summary, r, did)

----------------------------------------------------------------------------
(* Requests the service can receive *)

TxtEmail == <<"j","o","h","n","@","e","x","a","m","p","l","e",".","c","o","m">>

TxtCard == <<"4","1","1","1","1","1","1","1","1","1","1","1","1","1","1","1">>

TxtIban == <<"A","E","0","7","0","3","3","1","2","3","4","5","6","7","8","9","0","1","2","3","4","5","6">>

TxtFine == <<"C","l","i","e","n","t"," ","i","s"," ","d","o","i","n","g"," ","f","i","n","e">>

TxtAcme == <<"A","c","m","e">>

TxtNextSteps == <<"W","h","a","t"," ","a","r","e"," ","t","h","e"," ","n","e","x","t"," ","s","t","e","p","s","?">>

TxtLeverage == <<"I","s"," ","l","e","v","e","r","a","g","e"," ","o","k","?">>

TxtMailMe == <<"m","a","i","l"," ","j","o","h","n","@","e","x","a","m","p","l","e",".","c","o","m">>

Trend3Y == {"Improving", "Stable", "Declining"}
MarginTrend == {"Improving", "Stable", "Under Pressure"}
Signal3 == {"Strong", "Adequate", "Weak"}
SignalLeverage == {"Low", "Moderate", "Elevated"}
SignalVolatility == {"Low", "Moderate", "High"}
SignalInvestment == {"High", "Moderate", "Low"}

FinancialSignalsIn ==
    [revenue_trend_3y : Trend3Y,
     margin_trend_3y : MarginTrend,
     leverage_position : SignalLeverage,
     cashflow_quality : Signal3,
     earnings_volatility : SignalVolatility,
     capex_growth_investment : SignalInvestment,
     financial_transparency : Signal3]

\* the signals of a request with the first k of the seven unfavourable and the
\* others favourable
SignalProfile(k) ==
    [revenue_trend_3y |-> IF k >= 1 THEN "Declining" ELSE "Improving",
     margin_trend_3y |-> IF k >= 2 THEN "Under Pressure" ELSE "Improving",
     leverage_position |-> IF k >= 3 THEN "Elevated" ELSE "Low",
     cashflow_quality |-> IF k >= 4 THEN "Weak" ELSE "Strong",
     earnings_volatility |-> IF k >= 5 THEN "High" ELSE "Low",
     capex_growth_investment |-> IF k >= 6 THEN "High" ELSE "Low",
     financial_transparency |-> IF k >= 7 THEN "Weak" ELSE "Strong"]

\* eligibility scores in hundredths, on both sides of the bands 3.0 and 4.5
RuleScores == {0, 299, 300, 449, 450, 600}

\* validated DealInputRequest values for the rule engine alone: every
\* combination of the seven signals
RuleInputs ==
    [client_name : {TxtAcme},
     group_name : {NoneStr},
     sector : {"Manufacturing"},
     rating_anchor : [system : {"Moody's"}, grade : {<<"A">>, <<" ">>}],
     eligibility : [score : RuleScores, drivers : {<<>>, <<"Exports">>}],
     financial_signals : FinancialSignalsIn,
     notes : {NoneStr}]

\* validated DealInputRequest values sent to POST /assess
DealInputs ==
    [client_name : {TxtAcme},
     group_name : {NoneStr},
     sector : {"Manufacturing"},
     rating_anchor : [system : {"Moody's"}, grade : {<<"A">>, <<>>}],
     eligibility : [score : {299, 300, 450}, drivers : {<<>>}],
     financial_signals : {SignalProfile(0), SignalProfile(2)},
     notes : {NoneStr, Some(TxtEmail)}]

\* the summaries a client holds: responses of POST /assess, as JSON objects
SummaryInputs ==
    {[client_name |-> TxtAcme, group_name |-> NoneStr, sector |-> "Manufacturing",
      rating_anchor |-> [system |-> "Moody's", grade |-> g],
      eligibility |-> [score |-> s, drivers |-> <<>>],
      financial_signals |-> SignalProfile(k), notes |-> NoneStr] :
        <<g, s, k>> \in {<<<<"A">>, 450, 1>>, <<<<>>, 299, 7>>}}

SummaryKeys ==
    {"client_name", "group_name", "sector", "rating_anchor", "eligibility",
     "financial_signals", "deal_readiness", "mandate_fit_summary", "rm_actions",
     "talking_points", "created_at", "notes"}

\* the JSON object of a DealSummaryResponse body, with these notes
DictOfSummary(body, notes) ==
    PyDict(SummaryKeys,
           [notes |-> notes,
            deal_readiness |-> body.deal_readiness,
            mandate_fit_summary |-> body.mandate_fit_summary,
            rm_actions |-> body.rm_actions,
            talking_points |-> body.talking_points])

NotesTexts == {NoneStr, Some(TxtEmail)}

\* values the schema field `deal_summary: dict` accepts
SummaryDicts ==
    {PyDict({}, NoSummaryFields)}
    \cup {PyDict({"notes"}, [NoSummaryFields EXCEPT !.notes = n]) : n \in NotesTexts \ {NoneStr}}
    \cup {DictOfSummary(_assess_deal(p, 0).body, n) : p \in SummaryInputs, n \in NotesTexts}

Questions == {TxtNextSteps, TxtLeverage, TxtMailMe}

\* validated AIExplainRequest values
ExplainRequests == [deal_summary : SummaryDicts]

\* validated AIQARequest values
QARequests == [question : Questions, deal_summary : SummaryDicts \cup {PyNone}]

\* what oa_client.chat.completions.create does: it raises (timeout, network
\* failure, rate limit), or returns a message whose content is None or a text;
\* `json` is what json.loads makes of that text
JsonList(ok, items) == [ok |-> ok, items |-> items]
NoJson ==
    [shape |-> "invalid", executive_summary |-> "",
     key_risks_explained |-> JsonList(TRUE, <<>>), rm_talking_points |-> JsonList(TRUE, <<>>)]
AdapterReply(kind, content, json) == [kind |-> kind, content |-> content, json |-> json]

NoReply == AdapterReply("none", NoneStr, NoJson)

AdapterReplies ==
    {AdapterReply("exception", NoneStr, NoJson),
     AdapterReply("message", NoneStr, NoJson),
     AdapterReply("message", Some(<<" ">>), NoJson),
     AdapterReply("message", Some(TxtFine), NoJson),
     AdapterReply("message", Some(<<"[", "]">>), [NoJson EXCEPT !.shape = "array"]),
     AdapterReply("message", Some(<<"{", "}">>),
                  [shape |-> "object", executive_summary |-> "Summary.",
                   key_risks_explained |-> JsonList(TRUE, <<"Risk.">>),
                   rm_talking_points |-> JsonList(TRUE, <<"Point.">>)]),
     AdapterReply("message", Some(<<"{", "}">>),
                  [shape |-> "object", executive_summary |-> "Summary.",
                   key_risks_explained |-> JsonList(FALSE, <<>>),
                   rm_talking_points |-> JsonList(TRUE, <<>>)])}

\* the replies a request can meet: none without a client
RepliesFor(client) == IF client = "None" THEN {NoReply} ELSE AdapterReplies

NoRequest == [kind |-> "none"]
NoResponse == [status_code |-> 0, body |-> [kind |-> "none"]]

----------------------------------------------------------------------------
(* The service *)

Init ==
    /\ oa_client \in {"None", "Client"}
    /\ today = 0
    /\ endpoint = "none"
    /\ request = NoRequest
    /\ reply = NoReply
    /\ steps = <<>>
    /\ response = NoResponse

\* POST /assess
assess_deal ==
    \E payload \in DealInputs :
        /\ endpoint' = "assess"
        /\ request' = payload
        /\ steps' = <<GuardStep(<<payload.client_name, OrEmpty(payload.group_name),
                                  OrEmpty(payload.notes)>>)>>
        /\ response' = _assess_deal(payload, today)
        /\ reply' = NoReply
        /\ UNCHANGED <<oa_client, today>>

\* POST /ai/explain
ai_explain_request ==
    \E payload \in ExplainRequests : \E r \in RepliesFor(oa_client) :
        LET out == ai_explain(payload, oa_client, r)
        IN  /\ endpoint' = "explain"
            /\ request' = payload
            /\ reply' = r
            /\ steps' = out.steps
            /\ response' = out.response
            /\ UNCHANGED <<oa_client, today>>

\* POST /ai/qa
ai_qa_request ==
    \E payload \in QARequests : \E r \in RepliesFor(oa_client) :
        LET out == ai_qa(payload, oa_client, r)
        IN  /\ endpoint' = "qa"
            /\ request' = payload
            /\ reply' = r
            /\ steps' = out.steps
            /\ response' = out.response
            /\ UNCHANGED <<oa_client, today>>

\* the calendar day changes between two requests
Midnight ==
    /\ today < MaxDay
    /\ today' = today + 1
    /\ UNCHANGED <<oa_client, endpoint, request, reply, steps, response>>

Next ==
    \/ assess_deal
    \/ ai_explain_request
    \/ ai_qa_request
    \/ Midnight

Spec == Init /\ [][Next]_vars

----------------------------------------------------------------------------
(* The rule engine alone: one validated input, assessed once *)

InitRules ==
    /\ oa_client = "None"
    /\ today = 0
    /\ endpoint = "assess"
    /\ request \in RuleInputs
    /\ reply = NoReply
    /\ steps = <<>>
    /\ response = NoResponse

AssessOnce ==
    /\ response = NoResponse
    /\ endpoint = "assess"
    /\ response' = _assess_deal(request, today)
    /\ steps' = <<GuardStep(<<request.client_name, OrEmpty(request.group_name),
                              OrEmpty(request.notes)>>)>>
    /\ UNCHANGED <<oa_client, today, endpoint, request, reply>>

NextRules == AssessOnce

SpecRules == InitRules /\ [][NextRules]_vars

----------------------------------------------------------------------------
(* The guardrail scanner alone: one text, scanned once *)

\* c repeated n times
Rep(c, n) == [i \in 1..n |-> c]

\* what stands before and after a token: nothing, or up to MaxPad times a space,
\* a letter, a digit, an underscore or a dot
Pads == {Rep(c, n) : c \in {" ", "x", "A", "7", "_", "."}, n \in 0..MaxPad}

DigitCores == {Rep("7", n) : n \in {11, 12, 19, 20}}

IbanCores ==
    {Rep("A", u) \o Rep("7", d) \o Rep(c, n) :
        u \in {1, 2}, d \in {1, 2}, c \in {"A", "7", "a"}, n \in {10, 11, 30, 31}}

EmailCores ==
    {local \o <<"@">> \o domain \o tail :
        local \in {<<>>, <<"a">>, <<".">>, <<"a", ".">>},
        domain \in {<<>>, <<"b">>, <<"b", ".", "c">>, <<"-">>},
        tail \in {<<".", "c">>, <<".", "c", "o">>, <<".", "c", "o", "7">>, <<"c", "o">>}}

LiteralCores ==
    {TxtEmail, TxtCard, TxtIban, TxtFine, TxtMailMe, <<>>, <<" ">>, <<" ", "\n">>}

ScanTexts ==
    {before \o core \o after :
        before \in Pads, after \in Pads,
        core \in DigitCores \cup IbanCores \cup EmailCores \cup LiteralCores}

ScanResult(found) == [status_code |-> 0, body |-> [kind |-> "bool", value |-> found]]

InitScan ==
    /\ oa_client = "None"
    /\ today = 0
    /\ endpoint = "scan"
    /\ request \in [text : ScanTexts]
    /\ reply = NoReply
    /\ steps = <<>>
    /\ response = NoResponse

ScanOnce ==
    /\ response = NoResponse
    /\ endpoint = "scan"
    /\ response' = ScanResult(_contains_sensitive(request.text))
    /\ UNCHANGED <<oa_client, today, endpoint, request, reply, steps>>

NextScan == ScanOnce

SpecScan == InitScan /\ [][NextScan]_vars

----------------------------------------------------------------------------
(* Claims *)

Assessed == endpoint = "assess" /\ response.status_code = 200

\* the signals the claim calls unfavourable
UnfavourableCount(fs) ==
    Cardinality({n \in 1..7 :
        \/ n = 1 /\ fs.revenue_trend_3y = "Declining"
        \/ n = 2 /\ fs.margin_trend_3y = "Under Pressure"
        \/ n = 3 /\ fs.leverage_position = "Elevated"
        \/ n = 4 /\ fs.cashflow_quality = "Weak"
        \/ n = 5 /\ fs.earnings_volatility = "High"
        \/ n = 6 /\ fs.capex_growth_investment = "High"
        \/ n = 7 /\ fs.financial_transparency = "Weak"})

MajorConstraints(payload) ==
    UnfavourableCount(payload.financial_signals)
        + (IF payload.eligibility.score < 300 THEN 1 ELSE 0)

\* C1: the status of an assessment is Strong with no major constraint, Conditional
\* with one or two, Weak with three or more, where the major constraints are the
\* unfavourable financial signals and an eligibility score below 3.0; the soft
\* "not strongly differentiated" and the "no rating grade" constraints do not count.
C1_StatusFromMajorCount ==
    Assessed =>
        LET n == MajorConstraints(request)
        IN  response.body.deal_readiness.status =
                (IF n = 0 THEN "Strong" ELSE IF n <= 2 THEN "Conditional" ELSE "Weak")

\* an assessment that carries the soft and the no-grade constraint and is Strong
C1_Witness ==
    /\ Assessed
    /\ response.body.deal_readiness.constraints = <<MsgNoRatingGrade, MsgNotDifferentiated>>
    /\ response.body.deal_readiness.status = "Strong"

StatusRank(s) == IF s = "Strong" THEN 0 ELSE IF s = "Conditional" THEN 1 ELSE 2

SameButScore(p, q) ==
    [p EXCEPT !.eligibility.score = 0] = [q EXCEPT !.eligibility.score = 0]

\* C2: of two successive assessments whose inputs differ only in the eligibility
\* score, the one with the higher score never has the worse status, and the one
\* with the lower score never has the better status.
C2_StatusMonotone ==
    [][(Assessed /\ Assessed' /\ SameButScore(request, request')) =>
          LET before == StatusRank(response.body.deal_readiness.status)
              after == StatusRank(response'.body.deal_readiness.status)
          IN  /\ request'.eligibility.score >= request.eligibility.score => after <= before
              /\ request'.eligibility.score <= request.eligibility.score => after >= before]_vars

\* an assessment whose status the score decides: Conditional below 3.0, Strong
\* with the same input at 4.5
C2_Witness ==
    /\ Assessed
    /\ request.eligibility.score < 300
    /\ response.body.deal_readiness.status = "Conditional"
    /\ _assess_deal([request EXCEPT !.eligibility.score = 450], today).body.deal_readiness.status
           = "Strong"

\* C3: two successive calls of POST /assess with the same input, made at any two
\* points in time, return the same DealSummary in every field, created_at included.
C3_AssessDeterministic ==
    [][(Assessed /\ Assessed' /\ request' = request) => response' = response]_vars

\* the value under "notes" of the deal_summary of an AI request, "" when there is none
SummaryNotes ==
    IF endpoint \in {"explain", "qa"} /\ "notes" \in request.deal_summary.keys
    THEN OrEmpty(request.deal_summary.fields.notes)
    ELSE <<>>

\* the free text of an AI request: the question and, if present, the notes
FreeTexts ==
    (IF endpoint = "qa" THEN {request.question} ELSE {})
        \cup (IF SummaryNotes # <<>> THEN {SummaryNotes} ELSE {})

FreeTextClean == \A text \in FreeTexts : ~_contains_sensitive(text)

AIRequest == endpoint \in {"explain", "qa"}

\* C4: without an adapter, an AI request whose free text passes the guardrail ends
\* with a successful response that carries the fixed disclaimer.
C4_FallbackWithoutAdapter ==
    (AIRequest /\ oa_client = "None" /\ FreeTextClean) =>
        /\ response.status_code = 200
        /\ response.body.disclaimer = _ai_disclaimer

AdapterSteps == {i \in 1..Len(steps) : steps[i].op = "adapter"}

\* the call of the adapter failed: it raised, or it gave no usable answer
AdapterFailed ==
    \/ reply.kind = "exception"
    \/ endpoint = "qa" /\ PyStrip(OrEmpty(reply.content)) = <<>>
    \/ endpoint = "explain" /\ ~ExplainJsonOk(reply)

\* C5: when the single call of the adapter in an AI request fails, the request
\* still ends with a successful response: the output of the fallback generator
\* and the disclaimer.
C5_AdapterFailureAbsorbed ==
    (AIRequest /\ AdapterSteps # {} /\ AdapterFailed) =>
        /\ Cardinality(AdapterSteps) = 1
        /\ response.status_code = 200
        /\ response.body.disclaimer = _ai_disclaimer
        /\ endpoint = "qa" =>
               LET fb == _fallback_ai_qa(request.question, request.deal_summary)
               IN  ~fb.raised /\ response.body.answer = fb.value
        /\ endpoint = "explain" =>
               LET fb == ExplainFallback(request.deal_summary)
               IN  ~fb.raised /\ response.body = fb.value

\* a question answered by the fallback after the adapter raised
C5_Witness ==
    /\ endpoint = "qa"
    /\ AdapterSteps # {}
    /\ reply.kind = "exception"
    /\ response.status_code = 200
    /\ response.body.answer = AssessFirst

\* the notes of the request hold an email address
NotesHoldEmail ==
    \/ endpoint = "assess" /\ EmailSearch(OrEmpty(request.notes))
    \/ AIRequest /\ EmailSearch(SummaryNotes)

\* C6: a request to /assess, /ai/explain or /ai/qa whose notes hold an email
\* address is rejected with the 400 of the guardrail.
C6_EmailNotesRejected ==
    NotesHoldEmail => response = HTTP400

\* C7: the adapter is called only after the guard has scanned every free text of
\* the request and none matched; with a sensitive question or notes it is not called.
C7_GuardBeforeAdapter ==
    AIRequest =>
        /\ \A i \in AdapterSteps : \A text \in FreeTexts :
              /\ \E j \in 1..(i - 1) :
                    /\ steps[j].op = "guard"
                    /\ \E k \in 1..Len(steps[j].texts) : steps[j].texts[k] = text
              /\ ~_contains_sensitive(text)
        /\ ~FreeTextClean => AdapterSteps = {}

\* a question that reached the adapter after its scan
C7_Witness ==
    /\ endpoint = "qa"
    /\ Len(steps) = 2
    /\ steps[1] = GuardStep(<<request.question>>)
    /\ steps[2].op = "adapter"

Scanned == endpoint = "scan" /\ response.body.kind = "bool"

\* [a, b] is a maximal run of characters of S in t
MaximalRun(t, a, b, S) ==
    /\ a <= b
    /\ AllIn(t, a, b, S)
    /\ a = 1 \/ t[a - 1] \notin S
    /\ b = Len(t) \/ t[b + 1] \notin S

\* a token of t: a maximal run of letters, digits and underscores
Tokens(t) ==
    {<<a, b>> \in (1..Len(t)) \X (1..Len(t)) : MaximalRun(t, a, b, WordChar)}

\* a token of two uppercase letters, two digits and 11 to 30 further characters of S
HasIbanToken(t, S) ==
    \E tok \in Tokens(t) :
        /\ tok[2] - tok[1] + 1 \in 15..34
        /\ AllIn(t, tok[1], tok[1] + 1, Upper)
        /\ AllIn(t, tok[1] + 2, tok[1] + 3, Digit)
        /\ AllIn(t, tok[1] + 4, tok[2], S)

\* a run of 12 to 19 digits, with no digit before or after it
HasDigitRun(t) ==
    \E a \in 1..Len(t) : \E n \in 12..19 :
        a + n - 1 <= Len(t) /\ MaximalRun(t, a, a + n - 1, Digit)

\* a token of 12 to 19 digits
HasDigitToken(t) ==
    \E tok \in Tokens(t) :
        /\ tok[2] - tok[1] + 1 \in 12..19
        /\ AllIn(t, tok[1], tok[2], Digit)

\* an email-shaped token: before an "@" a local part of [A-Za-z0-9._%+-] with a
\* letter, digit or underscore in it; after it a domain of [A-Za-z0-9.-], a dot
\* and two or more letters that end the token
HasEmailToken(t) ==
    \E at \in 1..Len(t) :
        /\ t[at] = "@"
        /\ \E s \in 1..(at - 1) :
              /\ MaximalRun(t, s, at - 1, EmailLocalChar)
              /\ \E w \in s..(at - 1) : t[w] \in WordChar
        /\ \E d \in (at + 2)..Len(t) :
              /\ t[d] = "."
              /\ AllIn(t, at + 1, d - 1, EmailDomainChar)
              /\ \E e \in (d + 2)..Len(t) :
                    /\ MaximalRun(t, d + 1, e, Letter)
                    /\ e = Len(t) \/ t[e + 1] \notin WordChar

BlankText(t) == \A i \in 1..Len(t) : t[i] \in Whitespace

LiteralCases(t, found) ==
    /\ t \in {TxtEmail, TxtCard, TxtIban} => found
    /\ t \in {TxtFine, <<>>} => ~found

\* C8 as stated: the scan is true exactly when the text holds an IBAN-like token
\* (two uppercase letters, two digits, 11 to 30 further alphanumerics), a digit
\* run of length 12 to 19, or an email-shaped token; false for blank text.
C8_ScanAsStated ==
    Scanned =>
        /\ response.body.value =
               (\/ HasIbanToken(request.text, Letter \cup Digit)
                \/ HasDigitRun(request.text)
                \/ HasEmailToken(request.text))
        /\ BlankText(request.text) => ~response.body.value
        /\ LiteralCases(request.text, response.body.value)

\* C8, amended: the further characters of the IBAN-like token are uppercase
\* letters or digits, and the 12 to 19 digits are a whole token (no letter, digit
\* or underscore beside them).
C8_ScanTokens ==
    Scanned =>
        /\ response.body.value =
               (\/ HasIbanToken(request.text, Upper \cup Digit)
                \/ HasDigitToken(request.text)
                \/ HasEmailToken(request.text))
        /\ BlankText(request.text) => ~response.body.value
        /\ LiteralCases(request.text, response.body.value)

\* the IBAN of the claim between two spaces, found
C8_Witness ==
    /\ Scanned
    /\ request.text = <<" ">> \o TxtIban \o <<" ">>
    /\ response.body.value

\* C9: the explain given without an enhancement has the mandate fit summary as
\* executive summary, the first six constraints (or a placeholder) as key risks and
\* the first six rm_actions (or a placeholder) as talking points.
C9_ExplainFallback ==
    (endpoint = "explain" /\ oa_client = "None" /\ FreeTextClean) =>
        LET fields == request.deal_summary.fields
            constraints == fields.deal_readiness.constraints
        IN  /\ response.status_code = 200
            /\ response.body.executive_summary = fields.mandate_fit_summary
            /\ response.body.key_risks_explained =
                   (IF constraints = <<>> THEN <<"No major constraints flagged.">>
                    ELSE PyTake(constraints, 6))
            /\ response.body.rm_talking_points =
                   (IF fields.rm_actions = <<>> THEN <<"No actions recommended.">>
                    ELSE PyTake(fields.rm_actions, 6))

\* C10: the fallback answer never fails: without a summary it is the fixed
\* assess-first instruction, with a summary it is an answer built from it.
C10_FallbackAnswerTotal ==
    (endpoint = "qa" /\ oa_client = "None" /\ ~_contains_sensitive(request.question)) =>
        /\ response.status_code = 200
        /\ response.body.kind = "AIQAResponse"
        /\ request.deal_summary = PyNone => response.body.answer = AssessFirst

\* the one bullet the code gives for a status
StructuringBullet == "Mandate fit is clear; focus discussion on facility sizing and structure."
ResolutionBullet == "Proceed subject to resolving key constraints and tightening structure."
DeferralBullet == "Defer credit appetite until constraints are addressed and visibility improves."

\* C11 as stated: the talking points of an assessment are exactly three bullets,
\* fixed by the status alone.
C11_ThreeTalkingPoints ==
    Assessed =>
        /\ Len(response.body.talking_points) = 3
        /\ response.body.talking_points[1] =
               (IF response.body.deal_readiness.status = "Strong" THEN StructuringBullet
                ELSE IF response.body.deal_readiness.status = "Conditional" THEN ResolutionBullet
                ELSE DeferralBullet)

\* C11, amended: the talking points of an assessment are exactly one bullet, fixed
\* by the status alone: facility structuring for Strong, constraint resolution for
\* Conditional, deferral for Weak.
C11_OneTalkingPoint ==
    Assessed =>
        response.body.talking_points =
            (IF response.body.deal_readiness.status = "Strong" THEN <<StructuringBullet>>
             ELSE IF response.body.deal_readiness.status = "Conditional" THEN <<ResolutionBullet>>
             ELSE <<DeferralBullet>>)

\* a Weak assessment with its deferral bullet
C11_Witness ==
    /\ Assessed
    /\ response.body.deal_readiness.status = "Weak"
    /\ response.body.talking_points = <<DeferralBullet>>

\* what the eligibility rule left in the lists of an assessment
HasStrength(text) ==
    \E i \in 1..Len(response.body.deal_readiness.strengths) :
        /\ response.body.deal_readiness.strengths[i].text = text
        /\ text = "Eligibility drivers provided."
               \/ response.body.deal_readiness.strengths[i].arg = Fmt1(request.eligibility.score)
HasConstraint(c) ==
    \E i \in 1..Len(response.body.deal_readiness.constraints) :
        response.body.deal_readiness.constraints[i] = c
HasWeakEligibilityConstraint ==
    \E i \in 1..Len(response.body.deal_readiness.constraints) :
        LET c == response.body.deal_readiness.constraints[i]
        IN  /\ Len(c) > Len(MsgWeakEligibilityHead)
            /\ SubSeq(c, 1, Len(MsgWeakEligibilityHead)) = MsgWeakEligibilityHead
HasAction(a) ==
    \E i \in 1..Len(response.body.rm_actions) : response.body.rm_actions[i] = a

StrongStrength == HasStrength("Strong strategic eligibility score ({s:.1f}/6).")
ModerateStrength == HasStrength("Moderate strategic eligibility score ({s:.1f}/6).")
StrengthenAction ==
    HasAction("Strengthen eligibility case (job creation, exports, ICV, localisation, etc.).")
ReworkAction ==
    HasAction("Rework mandate alignment narrative and quantify eligibility drivers.")

\* C12: a score of 4.5 or more adds only the strong strength; a score from 3.0 up
\* to 4.5 adds the moderate strength, the "not strongly differentiated" constraint
\* and the strengthen action; a score below 3.0 adds the weak-eligibility
\* constraint and the rework action and no strength; a non-empty drivers list
\* adds the "drivers provided" strength, whatever the band.
C12_EligibilityBands ==
    Assessed =>
        LET s == request.eligibility.score
        IN  /\ StrongStrength <=> s >= 450
            /\ ModerateStrength <=> (300 <= s /\ s < 450)
            /\ HasConstraint(MsgNotDifferentiated) <=> (300 <= s /\ s < 450)
            /\ StrengthenAction <=> (300 <= s /\ s < 450)
            /\ HasWeakEligibilityConstraint <=> s < 300
            /\ ReworkAction <=> s < 300
            /\ HasStrength("Eligibility drivers provided.") <=> request.eligibility.drivers # <<>>

\* an assessment at exactly 3.0, in the middle band, with drivers given
C12_Witness ==
    /\ Assessed
    /\ request.eligibility.score = 300
    /\ request.eligibility.drivers # <<>>
    /\ ModerateStrength
    /\ HasConstraint(MsgNotDifferentiated)
    /\ HasStrength("Eligibility drivers provided.")

====
